---- MODULE Spec2Model ----
(***************************************************************************)
(* The wallet connection state machine of the useWallet hook               *)
(* (hooks/useWallet): the four-field WalletState, connectWallet,           *)
(* disconnectWallet, the mount-time probe (checkConnection) and the        *)
(* accountsChanged listener, together with the provider they talk to.      *)
(*                                                                         *)
(* The provider is the environment: it answers each request it received    *)
(* with a list of accounts or with a failure payload, in any order, and    *)
(* emits accountsChanged notifications at any time.  React applies the     *)
(* queued state updates in call order, so walletState is the value the     *)
(* update queue denotes; closures (the accountsChanged handler) see the    *)
(* value of the last render, kept in rendered / listeners.                 *)
(*                                                                         *)
(* Spec is the hook under any caller.  SpecApp is the hook as AppContent   *)
(* and WalletModal drive it: connectWallet() only through the modal's      *)
(* connect control and handleWalletConnect, disconnectWallet() only        *)
(* through handleWalletDisconnect.  SpecFormat applies formatAddress to    *)
(* address strings, taken as sequences of characters.                      *)
(***************************************************************************)
EXTENDS Integers, Sequences, FiniteSets, TLC

\* ---------------------------------------------------------------- bounds
MaxCalls == 2        \* connectWallet() calls that issue a request
MaxAccounts == 2     \* length of an account list answered by the provider
MaxListeners == 2    \* handlers a provider without removeListener accumulates
MaxAttempts == 2     \* clicks on the modal's connect control
MaxClicks == 1       \* the same, in the behaviours the modal's rendering is read on
MaxFmtLen == 7       \* length of the address strings formatAddress is applied to

\* -------------------------------------------------------- program values
Null == "null"       \* the null of address/error (no address or message equals it)
Addrs == {"0xAAA", "0xBBB"}

USER_REJECTED == 4001
REQUEST_PENDING == -32002
OTHER_CODE == -32603

NotInstalledMsg == "MetaMask is not installed. Please install MetaMask to continue."
RejectedMsg == "Connection rejected by user"
PendingMsg == "Connection request already pending"
FallbackMsg == "Failed to connect wallet"
NoAccountsMsg == "No accounts found"
ProviderMsg == "Internal JSON-RPC error."

\* An optional field is <<>> when absent and <<v>> when present.
Absent == <<>>
Some(v) == <<v>>

\* Failure payloads of the provider's request operation: an optional numeric
\* code and an optional message (possibly the empty string).
Codes == {Absent, Some(USER_REJECTED), Some(REQUEST_PENDING), Some(OTHER_CODE)}
Messages == {Absent, Some(""), Some(ProviderMsg)}
Failures == [code : Codes, message : Messages]

\* Account lists of length 0..MaxAccounts
AccountLists == UNION {[1..n -> Addrs] : n \in 0..MaxAccounts}

VARIABLES
    installed,      \* window.ethereum is present with isMetaMask === true
    hasOn,          \* window.ethereum.on is defined
    hasRemoveListener, \* window.ethereum.removeListener is defined
    phase,          \* "created" (before the effects ran), "mounted", "unmounted"
    walletState,    \* the WalletState record held by useState
    rendered,       \* the WalletState of the last render (what closures captured)
    listeners,      \* accountsChanged handlers registered at the provider: the
                    \* walletState.address each one captured, in registration order
    inflight,       \* connectWallet() calls awaiting their eth_requestAccounts answer
    probe,          \* checkConnection: "idle", "pending" (awaiting eth_accounts), "done"
    calls,          \* connectWallet() calls made so far with the provider installed
    requestsIssued, \* eth_requestAccounts requests sent to the provider so far
    probeRequests,  \* eth_accounts requests sent to the provider so far
    last,           \* the last operation applied to walletState, its input and the
                    \* state and request count it started from
    isWalletModalOpen, \* AppContent: the wallet modal is open
    attempts,       \* handleWalletConnect calls awaiting connectWallet(): the
                    \* `error` each one's closure captured
    closeTimers,    \* pending setTimeout callbacks that close the modal
    lastAttempt,    \* the last handleWalletConnect call that finished: the error
                    \* it captured, whether it ended connected, whether it
                    \* scheduled the close
    favorites,      \* AppContent: the identifiers of the favorite properties
    lastToggle,     \* the last two handleToggleFavorite calls: the propertyId
                    \* of each and the favorites it started from
    fmtAddress,     \* the argument of formatAddress
    fmtResult,      \* its result
    fmtDone         \* formatAddress has returned

\* The provider as the page finds it
envVars == <<installed, hasOn, hasRemoveListener>>

\* The hook and the requests it has outstanding
hookVars == <<phase, walletState, rendered, listeners, inflight, probe, calls,
              requestsIssued, probeRequests, last>>

\* AppContent's own state and the handleWalletConnect calls in progress
appVars == <<isWalletModalOpen, attempts, closeTimers, lastAttempt, favorites, lastToggle>>

\* A call of formatAddress
fmtVars == <<fmtAddress, fmtResult, fmtDone>>

vars == <<envVars, hookVars, appVars, fmtVars>>

\* useState initial value
EmptyState ==
    [isConnected |-> FALSE, address |-> Null, isConnecting |-> FALSE, error |-> Null]

NoFailure == [code |-> Absent, message |-> Absent]

Op(name, accounts, failure) ==
    [op |-> name, accounts |-> accounts, failure |-> failure,
     before |-> walletState, requestsBefore |-> requestsIssued]

NoAttempt == [status |-> "none", error |-> Null, connected |-> FALSE, scheduled |-> FALSE]

NoToggle == [id |-> Null, before |-> <<>>, prevId |-> Null, prevBefore |-> <<>>]

\* AppContent's useState initial values
InitApp ==
    /\ isWalletModalOpen = FALSE
    /\ attempts = <<>>
    /\ closeTimers = 0
    /\ lastAttempt = NoAttempt
    /\ favorites = <<"1", "4">>
    /\ lastToggle = NoToggle

\* No call of formatAddress
InitFmt ==
    /\ fmtAddress = <<>>
    /\ fmtResult = <<>>
    /\ fmtDone = FALSE

Init ==
    /\ InitApp
    /\ InitFmt
    /\ installed \in BOOLEAN
    /\ hasOn \in BOOLEAN
    /\ hasRemoveListener \in BOOLEAN
    /\ phase = "created"
    /\ walletState = EmptyState
    /\ rendered = EmptyState
    /\ listeners = <<>>
    /\ inflight = 0
    /\ probe = "idle"
    /\ calls = 0
    /\ requestsIssued = 0
    /\ probeRequests = 0
    /\ last = [op |-> "none", accounts |-> <<>>, failure |-> NoFailure,
               before |-> EmptyState, requestsBefore |-> 0]

\* isMetaMaskInstalled()
isMetaMaskInstalled == installed

\* ------------------------------------------------------------ connectWallet

\* Mutant of connectNotInstalled: the early return is missing, the call goes on
\* to mark the state as connecting
connectNotInstalled_noReturn(prev) ==
    [prev EXCEPT !.isConnecting = TRUE, !.error = Null]

\* connectWallet, provider not installed: setWalletState(prev => ({...prev, error, isConnecting: false}))
connectNotInstalled(prev) ==
    [prev EXCEPT !.error = NotInstalledMsg, !.isConnecting = FALSE]

\* Mutant of connectStart: a new attempt does not clear the previous error
connectStart_keepsError(prev) ==
    [prev EXCEPT !.isConnecting = TRUE]

\* connectWallet, before the request: setWalletState(prev => ({...prev, isConnecting: true, error: null}))
connectStart(prev) ==
    [prev EXCEPT !.isConnecting = TRUE, !.error = Null]

\* Mutant of connectSuccess: takes the last account of the answer, keeps no
\* other difference
connectSuccess_lastAccount(accounts) ==
    [isConnected |-> TRUE, address |-> accounts[Len(accounts)],
     isConnecting |-> FALSE, error |-> Null]

\* Mutant of requestAccounts: a failed request is retried once
requestAccounts_retry(issued) == issued + 2

\* requestAccounts: one eth_requestAccounts request per call, rethrown on failure
requestAccounts(issued) == issued + 1

\* connectWallet, accounts.length > 0: the state set from the answer
connectSuccess(accounts) ==
    [isConnected |-> TRUE, address |-> accounts[1], isConnecting |-> FALSE, error |-> Null]

\* new Error('No accounts found'), thrown on a zero-length answer
NoAccountsError == [code |-> Absent, message |-> Some(NoAccountsMsg)]

\* error.message is truthy
HasMessage(error) == error.message # Absent /\ error.message[1] # ""

\* Mutant of connectErrorMessage: the provider's message takes precedence over
\* the fixed messages of the known codes
connectErrorMessage_messageFirst(error) ==
    IF HasMessage(error) THEN error.message[1]
    ELSE IF error.code = Some(USER_REJECTED) THEN RejectedMsg
    ELSE IF error.code = Some(REQUEST_PENDING) THEN PendingMsg
    ELSE FallbackMsg

\* connectWallet, catch block: the message chosen for a failure
connectErrorMessage(error) ==
    IF error.code = Some(USER_REJECTED) THEN RejectedMsg
    ELSE IF error.code = Some(REQUEST_PENDING) THEN PendingMsg
    ELSE IF HasMessage(error) THEN error.message[1]
    ELSE FallbackMsg

\* Mutant of connectFailure: a functional update that forgets isConnecting
connectFailure_keepsConnecting(error) ==
    [walletState EXCEPT !.isConnected = FALSE, !.address = Null,
                        !.error = connectErrorMessage(error)]

\* connectWallet, catch block: the state set for a failure
connectFailure(error) ==
    [isConnected |-> FALSE, address |-> Null, isConnecting |-> FALSE,
     error |-> connectErrorMessage(error)]

\* Mutant of connectSettled: the error thrown for a zero-length answer is not
\* caught, no state is set
connectSettled_emptyUncaught(accounts) ==
    IF Len(accounts) > 0 THEN connectSuccess(accounts) ELSE walletState

\* connectWallet, after the await: the state set for the provider's answer
connectSettled(accounts) ==
    IF Len(accounts) > 0 THEN connectSuccess(accounts) ELSE connectFailure(NoAccountsError)

\* --------------------------------------------------------- disconnectWallet
\* Mutant of disconnectWallet: a functional update that only drops the address
disconnectWallet_partial ==
    [walletState EXCEPT !.isConnected = FALSE, !.address = Null]

disconnectWallet == EmptyState

\* ---------------------------------------------------------- checkConnection
\* Mutant of checkConnectionSettled: an empty answer resets the state
checkConnectionSettled_emptyResets(prev, accounts) ==
    IF Len(accounts) > 0
    THEN [isConnected |-> TRUE, address |-> accounts[1], isConnecting |-> FALSE, error |-> Null]
    ELSE EmptyState

\* checkConnection, after the await: accounts.length > 0 sets the connected
\* state, an empty answer sets nothing
checkConnectionSettled(prev, accounts) ==
    IF Len(accounts) > 0
    THEN [isConnected |-> TRUE, address |-> accounts[1], isConnecting |-> FALSE, error |-> Null]
    ELSE prev

\* Mutant of checkConnectionFailed: the failure is surfaced like a connect failure
checkConnectionFailed_surfaced(prev, error) ==
    [prev EXCEPT !.error = connectErrorMessage(error)]

\* checkConnection, catch block: the failure is logged, no state is set
checkConnectionFailed(prev, error) == prev

\* getAccounts: one eth_accounts request per call
getAccounts(issued) == issued + 1

\* ---------------------------------------------------- handleAccountsChanged
\* Mutant of handleAccountsChanged: the account switch forgets isConnected
handleAccountsChanged_addressOnly(prev, captured, accounts) ==
    IF Len(accounts) = 0 THEN EmptyState
    ELSE IF accounts[1] # captured
         THEN [prev EXCEPT !.address = accounts[1], !.error = Null]
         ELSE prev

\* Mutant of handleAccountsChanged: an empty list only drops the address
handleAccountsChanged_softDisconnect(prev, captured, accounts) ==
    IF Len(accounts) = 0 THEN [prev EXCEPT !.isConnected = FALSE, !.address = Null]
    ELSE IF accounts[1] # captured
         THEN [prev EXCEPT !.address = accounts[1], !.isConnected = TRUE, !.error = Null]
         ELSE prev

\* One handler, which captured walletState.address at the render that
\* registered it, applied to the state the update queue holds.
handleAccountsChanged(prev, captured, accounts) ==
    IF Len(accounts) = 0 THEN disconnectWallet
    ELSE IF accounts[1] # captured
         THEN [prev EXCEPT !.address = accounts[1], !.isConnected = TRUE, !.error = Null]
         ELSE prev

\* The provider calls every registered handler, in registration order.
RECURSIVE emitAccountsChanged(_, _, _)
emitAccountsChanged(prev, handlers, accounts) ==
    IF handlers = <<>> THEN prev
    ELSE emitAccountsChanged(handleAccountsChanged(prev, Head(handlers), accounts),
                             Tail(handlers), accounts)

\* window.ethereum.removeListener: drops the first registration of the handler
RECURSIVE removeListener(_, _)
removeListener(handlers, captured) ==
    IF handlers = <<>> THEN <<>>
    ELSE IF Head(handlers) = captured THEN Tail(handlers)
    ELSE <<Head(handlers)>> \o removeListener(Tail(handlers), captured)

\* The cleanup the subscription effect returned when it registered the handler
\* that captured `captured`: removes it if the provider has removeListener
unsubscribe(handlers, captured) ==
    IF isMetaMaskInstalled /\ hasOn /\ hasRemoveListener
    THEN removeListener(handlers, captured)
    ELSE handlers

\* Mutant of subscribe: the effect returns no cleanup
subscribe_noCleanup(handlers, previous, address) ==
    IF isMetaMaskInstalled /\ hasOn
    THEN Append(handlers, address)
    ELSE handlers

\* The subscription effect, (re-)run for a render whose walletState.address is
\* address: cleanup of the previous run, then window.ethereum.on
subscribe(handlers, previous, address) ==
    IF isMetaMaskInstalled /\ hasOn
    THEN Append(unsubscribe(handlers, previous), address)
    ELSE handlers

\* A commit of the render of state w after the render of state previous: the
\* subscription effect re-runs when walletState.address (its dependency) changed
commit(handlers, previous, w) ==
    IF w.address # previous.address
    THEN subscribe(handlers, previous.address, w.address)
    ELSE handlers

\* ------------------------------------------------------------------ actions

\* First commit: both effects run; checkConnection issues eth_accounts when
\* the provider is installed, the subscription effect registers its handler.
Mount ==
    /\ phase = "created"
    /\ phase' = "mounted"
    /\ probe' = IF isMetaMaskInstalled THEN "pending" ELSE "done"
    /\ probeRequests' = IF isMetaMaskInstalled THEN getAccounts(probeRequests)
                        ELSE probeRequests
    /\ listeners' = subscribe(listeners, rendered.address, rendered.address)
    /\ UNCHANGED <<envVars, appVars, fmtVars, walletState, rendered, inflight, calls,
                   requestsIssued, last>>

\* A re-render: closures see the new state; the subscription effect re-runs
\* when walletState.address differs from the previous render's.
Render ==
    /\ phase = "mounted"
    /\ rendered # walletState
    /\ Len(commit(listeners, rendered, walletState)) <= MaxListeners
    /\ rendered' = walletState
    /\ listeners' = commit(listeners, rendered, walletState)
    /\ UNCHANGED <<envVars, appVars, fmtVars, phase, walletState, inflight, probe, calls,
                   requestsIssued, probeRequests, last>>

\* connectWallet() up to its await (or its early return)
ConnectWallet ==
    /\ phase = "mounted"
    /\ last' = Op("connect", <<>>, NoFailure)
    /\ IF ~isMetaMaskInstalled
       THEN /\ walletState' = connectNotInstalled(walletState)
            /\ UNCHANGED <<inflight, calls, requestsIssued>>
       ELSE /\ calls < MaxCalls
            /\ walletState' = connectStart(walletState)
            /\ inflight' = inflight + 1
            /\ calls' = calls + 1
            /\ requestsIssued' = requestAccounts(requestsIssued)
    /\ UNCHANGED <<envVars, appVars, fmtVars, phase, rendered, listeners, probe, probeRequests>>

\* eth_requestAccounts resolves: connectWallet() resumes after its await
ConnectResolve(accounts) ==
    /\ phase = "mounted"
    /\ inflight > 0
    /\ inflight' = inflight - 1
    /\ last' = Op("connectResolve", accounts, NoFailure)
    /\ walletState' = connectSettled(accounts)
    /\ UNCHANGED <<envVars, appVars, fmtVars, phase, rendered, listeners, probe, calls,
                   requestsIssued, probeRequests>>

\* eth_requestAccounts rejects: requestAccounts rethrows, connectWallet() catches
ConnectReject(error) ==
    /\ phase = "mounted"
    /\ inflight > 0
    /\ inflight' = inflight - 1
    /\ last' = Op("connectReject", <<>>, error)
    /\ walletState' = connectFailure(error)
    /\ UNCHANGED <<envVars, appVars, fmtVars, phase, rendered, listeners, probe, calls,
                   requestsIssued, probeRequests>>

\* disconnectWallet()
DisconnectWallet ==
    /\ phase = "mounted"
    /\ last' = Op("disconnect", <<>>, NoFailure)
    /\ walletState' = disconnectWallet
    /\ UNCHANGED <<envVars, appVars, fmtVars, phase, rendered, listeners, inflight, probe,
                   calls, requestsIssued, probeRequests>>

\* eth_accounts resolves: checkConnection resumes after its await
ProbeResolve(accounts) ==
    /\ phase = "mounted"
    /\ probe = "pending"
    /\ probe' = "done"
    /\ last' = Op("probeResolve", accounts, NoFailure)
    /\ walletState' = checkConnectionSettled(walletState, accounts)
    /\ UNCHANGED <<envVars, appVars, fmtVars, phase, rendered, listeners, inflight, calls,
                   requestsIssued, probeRequests>>

\* eth_accounts rejects: getAccounts rethrows, checkConnection logs and swallows
ProbeReject(error) ==
    /\ phase = "mounted"
    /\ probe = "pending"
    /\ probe' = "done"
    /\ last' = Op("probeReject", <<>>, error)
    /\ walletState' = checkConnectionFailed(walletState, error)
    /\ UNCHANGED <<envVars, appVars, fmtVars, phase, rendered, listeners, inflight, calls,
                   requestsIssued, probeRequests>>

\* The provider emits accountsChanged: every registered handler runs
AccountsChanged(accounts) ==
    /\ phase = "mounted"
    /\ listeners # <<>>
    /\ last' = Op("accountsChanged", accounts, NoFailure)
    /\ walletState' = emitAccountsChanged(walletState, listeners, accounts)
    /\ UNCHANGED <<envVars, appVars, fmtVars, phase, rendered, listeners, inflight, probe,
                   calls, requestsIssued, probeRequests>>

\* The owning component is torn down: the subscription effect's cleanup runs
Unmount ==
    /\ phase = "mounted"
    /\ phase' = "unmounted"
    /\ listeners' = unsubscribe(listeners, rendered.address)
    /\ UNCHANGED <<envVars, appVars, fmtVars, walletState, rendered, inflight, probe, calls,
                   requestsIssued, probeRequests, last>>

\* eth_requestAccounts settles after teardown: connectWallet() resumes, its
\* setWalletState reaches a disposed component and sets nothing
ConnectSettleAfterUnmount ==
    /\ phase = "unmounted"
    /\ inflight > 0
    /\ inflight' = inflight - 1
    /\ UNCHANGED <<envVars, appVars, fmtVars, phase, walletState, rendered, listeners, probe, calls,
                   requestsIssued, probeRequests, last>>

\* eth_accounts settles after teardown: checkConnection sets nothing
ProbeSettleAfterUnmount ==
    /\ phase = "unmounted"
    /\ probe = "pending"
    /\ probe' = "done"
    /\ UNCHANGED <<envVars, appVars, fmtVars, phase, walletState, rendered, listeners, inflight,
                   calls, requestsIssued, probeRequests, last>>

\* accountsChanged after teardown: the handlers still registered run, their
\* setWalletState reaches a disposed component and sets nothing
AccountsChangedAfterUnmount(accounts) ==
    /\ phase = "unmounted"
    /\ listeners # <<>>
    /\ last' = Op("accountsChangedAfterUnmount", accounts, NoFailure)
    /\ UNCHANGED <<envVars, appVars, fmtVars, phase, walletState, rendered, listeners, inflight,
                   probe, calls, requestsIssued, probeRequests>>

Next ==
    \/ Mount
    \/ Render
    \/ ConnectWallet
    \/ \E accounts \in AccountLists : ConnectResolve(accounts)
    \/ \E error \in Failures : ConnectReject(error)
    \/ DisconnectWallet
    \/ \E accounts \in AccountLists : ProbeResolve(accounts)
    \/ \E error \in Failures : ProbeReject(error)
    \/ \E accounts \in AccountLists : AccountsChanged(accounts)
    \/ Unmount
    \/ ConnectSettleAfterUnmount
    \/ ProbeSettleAfterUnmount
    \/ \E accounts \in AccountLists : AccountsChangedAfterUnmount(accounts)

Spec == Init /\ [][Next]_vars

\* The provider answers a request connectWallet() is awaiting
ProviderAnswers ==
    \/ \E accounts \in AccountLists : ConnectResolve(accounts)
    \/ \E error \in Failures : ConnectReject(error)

\* A browser without a provider, or with MetaMask's provider, an event
\* emitter that has both on and removeListener
InitMetaMask ==
    /\ Init
    /\ hasOn = installed
    /\ hasRemoveListener = installed

\* The hook with a provider that eventually resolves or rejects every
\* eth_requestAccounts request it received
\* The steps of the hook with such a provider: those of Next, but for the
\* notification to a handler left registered after teardown, which a provider
\* with removeListener never has
NextLive ==
    \/ Mount
    \/ Render
    \/ ConnectWallet
    \/ ProviderAnswers
    \/ DisconnectWallet
    \/ \E accounts \in AccountLists : ProbeResolve(accounts)
    \/ \E error \in Failures : ProbeReject(error)
    \/ \E accounts \in AccountLists : AccountsChanged(accounts)
    \/ Unmount
    \/ ConnectSettleAfterUnmount
    \/ ProbeSettleAfterUnmount

SpecLive == InitMetaMask /\ [][NextLive]_vars /\ WF_vars(ProviderAnswers)

\* ------------------------------------------------- AppContent and WalletModal

\* JavaScript truthiness of a `string | null`
truthy(value) == value # Null /\ value # ""

WalletModal_connectWithoutProvider(isOpen, w, metaMaskInstalled) ==
    IF ~isOpen THEN {}
    ELSE IF w.isConnected THEN {"connectedSummary", "disconnectButton"}
    ELSE (IF truthy(w.error) THEN {"errorBanner"} ELSE {})
         \cup {"connectButton"}
         \cup (IF w.isConnecting THEN {"connectButtonDisabled"} ELSE {})

\* WalletModal: the elements it renders for its props.  null when !isOpen;
\* the connected summary with the disconnect button when
\* walletState.isConnected; otherwise the error banner when walletState.error
\* is truthy, and the connect button (disabled while isConnecting) when
\* isMetaMaskInstalled or the install link when not
WalletModal(isOpen, w, metaMaskInstalled) ==
    IF ~isOpen THEN {}
    ELSE IF w.isConnected THEN {"connectedSummary", "disconnectButton"}
    ELSE (IF truthy(w.error) THEN {"errorBanner"} ELSE {})
         \cup (IF metaMaskInstalled
               THEN {"connectButton"}
                    \cup (IF w.isConnecting THEN {"connectButtonDisabled"} ELSE {})
               ELSE {"installLink"})

\* AppContent's render: the modal for the state and the provider check of the
\* last render
Modal == WalletModal(isWalletModalOpen, rendered, isMetaMaskInstalled)

\* WalletModal: the connect control is rendered (modal open, not connected,
\* provider installed) and enabled (not connecting) in the last render
connectControlEnabled ==
    /\ isWalletModalOpen
    /\ ~rendered.isConnected
    /\ isMetaMaskInstalled
    /\ ~rendered.isConnecting

\* WalletModal: the disconnect control is rendered in the last render
disconnectControlShown ==
    /\ isWalletModalOpen
    /\ rendered.isConnected

\* handleWalletConnect after its await: `if (!error)` on the error its closure
\* captured when the control was clicked
schedulesClose(capturedError) == capturedError = Null

\* The sequence without its i-th element
RemoveAt(seq, i) == SubSeq(seq, 1, i - 1) \o SubSeq(seq, i + 1, Len(seq))

\* handleConnectWallet: the navbar or dashboard control opens the modal
HandleConnectWallet ==
    /\ phase = "mounted"
    /\ ~isWalletModalOpen
    /\ isWalletModalOpen' = TRUE
    /\ UNCHANGED <<envVars, hookVars, fmtVars, attempts, closeTimers, lastAttempt,
                   favorites, lastToggle>>

\* handleCloseWalletModal: the close button or a click on the backdrop
HandleCloseWalletModal ==
    /\ phase = "mounted"
    /\ isWalletModalOpen
    /\ isWalletModalOpen' = FALSE
    /\ UNCHANGED <<envVars, hookVars, fmtVars, attempts, closeTimers, lastAttempt,
                   favorites, lastToggle>>

\* A click on the modal's connect control: handleWalletConnect runs
\* connectWallet() up to its await; React renders the update of a click
\* before the next event
HandleWalletConnect ==
    /\ phase = "mounted"
    /\ connectControlEnabled
    /\ calls < MaxAttempts
    /\ Len(commit(listeners, rendered, connectStart(walletState))) <= MaxListeners
    /\ last' = Op("connect", <<>>, NoFailure)
    /\ walletState' = connectStart(walletState)
    /\ inflight' = inflight + 1
    /\ calls' = calls + 1
    /\ requestsIssued' = requestAccounts(requestsIssued)
    /\ attempts' = Append(attempts, rendered.error)
    /\ rendered' = walletState'
    /\ listeners' = commit(listeners, rendered, walletState')
    /\ UNCHANGED <<envVars, fmtVars, phase, probe, probeRequests,
                   isWalletModalOpen, closeTimers, lastAttempt, favorites, lastToggle>>

\* The request of the i-th pending handleWalletConnect call resolves:
\* connectWallet() sets the state and returns, handleWalletConnect resumes
AttemptResolve(i, accounts) ==
    /\ phase = "mounted"
    /\ i \in 1..Len(attempts)
    /\ inflight' = inflight - 1
    /\ last' = Op("connectResolve", accounts, NoFailure)
    /\ walletState' = connectSettled(accounts)
    /\ attempts' = RemoveAt(attempts, i)
    /\ closeTimers' = IF schedulesClose(attempts[i]) THEN closeTimers + 1 ELSE closeTimers
    /\ lastAttempt' = [status |-> "settled", error |-> attempts[i],
                       connected |-> walletState'.isConnected,
                       scheduled |-> schedulesClose(attempts[i])]
    /\ UNCHANGED <<envVars, fmtVars, phase, rendered, listeners, probe, calls,
                   requestsIssued, probeRequests, isWalletModalOpen, favorites, lastToggle>>

\* The request of the i-th pending handleWalletConnect call rejects
AttemptReject(i, error) ==
    /\ phase = "mounted"
    /\ i \in 1..Len(attempts)
    /\ inflight' = inflight - 1
    /\ last' = Op("connectReject", <<>>, error)
    /\ walletState' = connectFailure(error)
    /\ attempts' = RemoveAt(attempts, i)
    /\ closeTimers' = IF schedulesClose(attempts[i]) THEN closeTimers + 1 ELSE closeTimers
    /\ lastAttempt' = [status |-> "settled", error |-> attempts[i],
                       connected |-> walletState'.isConnected,
                       scheduled |-> schedulesClose(attempts[i])]
    /\ UNCHANGED <<envVars, fmtVars, phase, rendered, listeners, probe, calls,
                   requestsIssued, probeRequests, isWalletModalOpen, favorites, lastToggle>>

\* The setTimeout callback of handleWalletConnect fires
CloseTimerFires ==
    /\ phase = "mounted"
    /\ closeTimers > 0
    /\ closeTimers' = closeTimers - 1
    /\ isWalletModalOpen' = FALSE
    /\ UNCHANGED <<envVars, hookVars, fmtVars, attempts, lastAttempt, favorites, lastToggle>>

\* A click on the modal's disconnect control: handleWalletDisconnect
HandleWalletDisconnect ==
    /\ phase = "mounted"
    /\ disconnectControlShown
    /\ Len(commit(listeners, rendered, disconnectWallet)) <= MaxListeners
    /\ last' = Op("disconnect", <<>>, NoFailure)
    /\ walletState' = disconnectWallet
    /\ isWalletModalOpen' = FALSE
    /\ rendered' = walletState'
    /\ listeners' = commit(listeners, rendered, walletState')
    /\ UNCHANGED <<envVars, fmtVars, phase, inflight, probe, calls, requestsIssued,
                   probeRequests, attempts, closeTimers, lastAttempt, favorites, lastToggle>>

NextApp ==
    \/ Mount
    \/ Render
    \/ HandleConnectWallet
    \/ HandleCloseWalletModal
    \/ HandleWalletConnect
    \/ \E i \in 1..MaxAttempts, accounts \in AccountLists : AttemptResolve(i, accounts)
    \/ \E i \in 1..MaxAttempts, error \in Failures : AttemptReject(i, error)
    \/ CloseTimerFires
    \/ HandleWalletDisconnect
    \/ \E accounts \in AccountLists : ProbeResolve(accounts)
    \/ \E error \in Failures : ProbeReject(error)
    \/ \E accounts \in AccountLists : AccountsChanged(accounts)

SpecApp == InitMetaMask /\ [][NextApp]_vars

\* AppContent and WalletModal with at most MaxClicks clicks on the connect
\* control
ClickConnect == calls < MaxClicks /\ HandleWalletConnect

NextModal ==
    \/ Mount
    \/ Render
    \/ HandleConnectWallet
    \/ HandleCloseWalletModal
    \/ ClickConnect
    \/ \E i \in 1..MaxClicks, accounts \in AccountLists : AttemptResolve(i, accounts)
    \/ \E i \in 1..MaxClicks, error \in Failures : AttemptReject(i, error)
    \/ CloseTimerFires
    \/ HandleWalletDisconnect
    \/ \E accounts \in AccountLists : ProbeResolve(accounts)
    \/ \E error \in Failures : ProbeReject(error)
    \/ \E accounts \in AccountLists : AccountsChanged(accounts)

SpecModal == InitMetaMask /\ [][NextModal]_vars

\* ------------------------------------------------------------------ favorites

\* The identifiers of the properties a page can show
PropertyIds == {"1", "2", "3", "4"}

\* Array.prototype.includes
includes(array, element) == \E i \in 1..Len(array) : array[i] = element

handleToggleFavorite_append(prev, propertyId) == Append(prev, propertyId)

\* The updater handleToggleFavorite passes to setFavorites:
\* prev.includes(propertyId) ? prev.filter(id => id !== propertyId)
\*                            : [...prev, propertyId]
handleToggleFavorite(prev, propertyId) ==
    IF includes(prev, propertyId)
    THEN SelectSeq(prev, LAMBDA id : id # propertyId)
    ELSE Append(prev, propertyId)

\* A click on a property's favorite control
HandleToggleFavorite(propertyId) ==
    /\ phase = "mounted"
    /\ favorites' = handleToggleFavorite(favorites, propertyId)
    /\ lastToggle' = [id |-> propertyId, before |-> favorites,
                      prevId |-> lastToggle.id, prevBefore |-> lastToggle.before]
    /\ UNCHANGED <<envVars, hookVars, fmtVars, isWalletModalOpen, attempts, closeTimers,
                   lastAttempt>>

\* AppContent in a browser without a provider
InitFavorites == Init /\ ~installed /\ ~hasOn /\ ~hasRemoveListener

NextFavorites ==
    \/ Mount
    \/ \E propertyId \in PropertyIds : HandleToggleFavorite(propertyId)

SpecFavorites == InitFavorites /\ [][NextFavorites]_vars

\* -------------------------------------------------------------- formatAddress
\* Strings are sequences of characters.

Min(a, b) == IF a < b THEN a ELSE b
Max(a, b) == IF a > b THEN a ELSE b

\* String.prototype.slice(begin, end): a negative index counts from the end,
\* indexes are clamped to the string
slice(str, begin, end) ==
    LET n == Len(str)
        from == IF begin < 0 THEN Max(n + begin, 0) ELSE Min(begin, n)
        to == IF end < 0 THEN Max(n + end, 0) ELSE Min(end, n)
    IN  SubSeq(str, from + 1, to)

\* The literal between the two slices of the template string
Dots == <<".", ".", ".">>

\* Mutant of formatAddress: the slices of the comment's example (0xabc...123)
formatAddress_shortSlices(address) ==
    IF address = <<>> THEN <<>>
    ELSE slice(address, 0, 5) \o Dots \o slice(address, -3, Len(address))

\* formatAddress: '' for a falsy address, else
\* `${address.slice(0, 6)}...${address.slice(-4)}`
formatAddress(address) ==
    IF address = <<>> THEN <<>>
    ELSE slice(address, 0, 6) \o Dots \o slice(address, -4, Len(address))

\* The address of the documented example, "0x1234567890abcdef"
ExampleAddress ==
    <<"0", "x", "1", "2", "3", "4", "5", "6", "7", "8", "9", "0",
      "a", "b", "c", "d", "e", "f">>

FmtChars == {"0", "x"}

\* The strings formatAddress is applied to: every string over FmtChars of
\* length 0..MaxFmtLen, and the documented example
FmtInputs == UNION {[1..n -> FmtChars] : n \in 0..MaxFmtLen} \cup {ExampleAddress}

InitFormat ==
    /\ InitApp
    /\ installed = FALSE /\ hasOn = FALSE /\ hasRemoveListener = FALSE
    /\ phase = "created"
    /\ walletState = EmptyState
    /\ rendered = EmptyState
    /\ listeners = <<>>
    /\ inflight = 0
    /\ probe = "idle"
    /\ calls = 0
    /\ requestsIssued = 0
    /\ probeRequests = 0
    /\ last = [op |-> "none", accounts |-> <<>>, failure |-> NoFailure,
               before |-> EmptyState, requestsBefore |-> 0]
    /\ fmtAddress \in FmtInputs
    /\ fmtResult = <<>>
    /\ fmtDone = FALSE

\* A call of formatAddress returns
FormatAddress ==
    /\ ~fmtDone
    /\ fmtResult' = formatAddress(fmtAddress)
    /\ fmtDone' = TRUE
    /\ UNCHANGED <<envVars, hookVars, appVars, fmtAddress>>

NextFormat == FormatAddress

SpecFormat == InitFormat /\ [][NextFormat]_vars

\* ------------------------------------------------------- states of the spec
Connected(w) == w.isConnected
Connecting(w) == w.isConnecting
Errored(w) == w.error # Null
IdleDisconnected(w) == ~w.isConnected /\ ~w.isConnecting /\ w.error = Null
Disconnected(w) == ~w.isConnected /\ ~w.isConnecting

\* ------------------------------------------------------------------- claims

\* C1: isConnecting is true only while at least one connectWallet() call has
\* started and not yet settled; whenever no connectWallet() call is in flight,
\* isConnecting is false.  (The state of a torn-down hook is disposed of.)
C1_IsConnectingOnlyInFlight ==
    (phase # "unmounted" /\ walletState.isConnecting) => inflight > 0

\* A connectWallet() call started from an idle state and was rejected; no call
\* is left in flight.
C1_Witness ==
    /\ last.op = "connectReject"
    /\ last.before.isConnecting
    /\ inflight = 0
    /\ ~walletState.isConnecting

\* C2: in every reachable WalletState, address is non-null if and only if
\* isConnected is true.
C2_AddressIffConnected ==
    (walletState.address # Null) <=> walletState.isConnected

\* An accountsChanged notification set an address on a disconnected state.
C2_Witness ==
    /\ last.op = "accountsChanged"
    /\ ~last.before.isConnected
    /\ last.before.address = Null
    /\ walletState.address \in Addrs
    /\ walletState.isConnected

\* C3: in every reachable WalletState exactly one of idle-disconnected,
\* connecting, connected, errored holds; in particular isConnecting and
\* isConnected are never both true.
C3_ExactlyOneState ==
    /\ Cardinality({i \in 1..4 :
            \/ i = 1 /\ IdleDisconnected(walletState)
            \/ i = 2 /\ Connecting(walletState)
            \/ i = 3 /\ Connected(walletState)
            \/ i = 4 /\ Errored(walletState)}) = 1
    /\ ~(walletState.isConnecting /\ walletState.isConnected)

\* C4: every change of WalletState follows the transition graph: Connected is
\* entered only from Connecting by a successful connectWallet() request or by
\* the mount-time probe; Connected is left only to the empty Disconnected state,
\* by disconnectWallet() or by accountsChanged with an empty list; Connecting is
\* left either to Connected or to Disconnected with an error.
C4_TransitionGraph ==
    LET b == last.before
        a == walletState
    IN  last.op # "none" =>
        /\ (~Connected(b) /\ Connected(a)) =>
               \/ Connecting(b) /\ last.op = "connectResolve"
               \/ last.op = "probeResolve"
        /\ (Connected(b) /\ ~Connected(a)) =>
               /\ Disconnected(a)
               /\ \/ last.op = "disconnect"
                  \/ last.op = "accountsChanged" /\ last.accounts = <<>>
        /\ (Connecting(b) /\ ~Connecting(a)) =>
               \/ Connected(a)
               \/ Disconnected(a) /\ a.error # Null

\* C5: whenever an eth_requestAccounts request resolves with a non-empty list,
\* the state right after is connected with the first element of the list as
\* address, isConnecting false and error null, whatever the other elements and
\* whatever the state before.
C5_ResolveFirstAccountWins ==
    (last.op = "connectResolve" /\ Len(last.accounts) > 0) =>
        walletState = [isConnected |-> TRUE, address |-> Head(last.accounts),
                       isConnecting |-> FALSE, error |-> Null]

\* A request resolved with two different accounts after the state had been
\* reset under it by disconnectWallet().
C5_Witness ==
    /\ last.op = "connectResolve"
    /\ Len(last.accounts) = 2
    /\ last.accounts[1] # last.accounts[2]
    /\ last.before = EmptyState
    /\ walletState.address = last.accounts[1]

\* C6: every failed connectWallet() attempt settles into isConnected false,
\* address null, isConnecting false, with error 4001 -> "Connection rejected by
\* user", -32002 -> "Connection request already pending", any other rejection
\* -> the provider's message when it has one, "Failed to connect wallet"
\* otherwise; a zero-length answer -> "No accounts found".
C6_FailureMapping ==
    LET f == last.failure
        expected ==
            IF f.code = <<4001>> THEN "Connection rejected by user"
            ELSE IF f.code = <<-32002>> THEN "Connection request already pending"
            ELSE IF f.message \notin {<<>>, <<"">>} THEN f.message[1]
            ELSE "Failed to connect wallet"
    IN  /\ last.op = "connectReject" =>
            walletState = [isConnected |-> FALSE, address |-> Null,
                           isConnecting |-> FALSE, error |-> expected]
        /\ (last.op = "connectResolve" /\ last.accounts = <<>>) =>
            walletState = [isConnected |-> FALSE, address |-> Null,
                           isConnecting |-> FALSE, error |-> "No accounts found"]

\* A request was rejected with code 4001 and a message of the provider's, from a
\* state an accountsChanged notification had marked connected.
C6_Witness ==
    /\ last.op = "connectReject"
    /\ last.failure = [code |-> Some(USER_REJECTED), message |-> Some(ProviderMsg)]
    /\ last.before.isConnected
    /\ walletState.error = RejectedMsg

\* C7: with the provider not installed, connectWallet() issues no request and
\* settles at once into Disconnected with the "not installed" error; no state
\* with isConnecting = true is reachable.
C7_NotInstalled ==
    ~installed =>
        /\ ~walletState.isConnecting
        /\ requestsIssued = 0
        /\ inflight = 0
        /\ last.op = "connect" =>
               walletState = [isConnected |-> FALSE, address |-> Null,
                              isConnecting |-> FALSE, error |-> NotInstalledMsg]

\* connectWallet() was called twice without a provider.
C7_Witness ==
    /\ ~installed
    /\ last.op = "connect"
    /\ last.before.error = NotInstalledMsg
    /\ walletState.error = NotInstalledMsg

\* C8: an accountsChanged notification with an empty list handled while
\* Connected leaves the fully empty Disconnected state.
C8_EmptyListDisconnects ==
    (last.op = "accountsChanged" /\ last.accounts = <<>> /\ last.before.isConnected) =>
        walletState = EmptyState

\* The empty list arrived while connected with a connectWallet() call in flight.
C8_Witness ==
    /\ last.op = "accountsChanged"
    /\ last.accounts = <<>>
    /\ last.before.isConnected
    /\ last.before.isConnecting
    /\ walletState = EmptyState

\* C9: an accountsChanged notification with a non-empty list, arriving while
\* Connected with a first entry different from the stored address, sets address
\* to that entry, keeps isConnected true, sets error to null and changes
\* nothing else.
C9_AccountSwitch ==
    (/\ last.op = "accountsChanged"
     /\ Len(last.accounts) > 0
     /\ last.before.isConnected
     /\ Head(last.accounts) # last.before.address) =>
        walletState = [last.before EXCEPT !.address = Head(last.accounts),
                                          !.isConnected = TRUE,
                                          !.error = Null]

\* C10: disconnectWallet() from any state yields exactly the empty state and
\* issues no provider request; from the empty state it leaves the state
\* identical.
C10_DisconnectResets ==
    last.op = "disconnect" =>
        /\ walletState = EmptyState
        /\ requestsIssued = last.requestsBefore
        /\ last.before = EmptyState => walletState = last.before

\* disconnectWallet() was called while a connectWallet() call was in flight.
C10_Witness ==
    /\ last.op = "disconnect"
    /\ last.before.isConnecting
    /\ inflight > 0
    /\ walletState = EmptyState

C14_ProbeFailureSilent ==
    /\ last.op = "probeReject" => walletState = last.before
    /\ (~installed /\ last.op = "none") =>
           /\ walletState = EmptyState
           /\ probeRequests = 0

\* The probe was rejected while a connectWallet() call was in flight.
C14_Witness ==
    /\ last.op = "probeReject"
    /\ last.before.isConnecting
    /\ walletState = last.before
    /\ walletState.error = Null

\* C15: the probe runs once per mount and issues only eth_accounts; a non-empty
\* answer sets Connected with the first entry, isConnecting false and error
\* null; an empty answer leaves WalletState unchanged.
C15_ProbeOnce ==
    /\ probeRequests = (IF installed /\ phase # "created" THEN 1 ELSE 0)
    /\ last.op = "probeResolve" =>
           /\ requestsIssued = last.requestsBefore
           /\ Len(last.accounts) > 0 =>
                  walletState = [isConnected |-> TRUE, address |-> Head(last.accounts),
                                 isConnecting |-> FALSE, error |-> Null]
           /\ Len(last.accounts) = 0 => walletState = last.before

\* The probe resolved with two different accounts after a connect attempt had
\* failed.
C15_Witness ==
    /\ last.op = "probeResolve"
    /\ Len(last.accounts) = 2
    /\ last.accounts[1] # last.accounts[2]
    /\ last.before.error # Null
    /\ walletState.address = last.accounts[1]
    /\ probeRequests = 1

\* C17: once disconnectWallet() has been applied, the settlement of a
\* connectWallet() request or of the probe that was already in flight leaves
\* the empty Disconnected state.
C17_DisconnectFinal ==
    [][(/\ last.op = "disconnect"
        /\ last'.op \in {"connectResolve", "connectReject", "probeResolve", "probeReject"})
       => walletState' = EmptyState]_vars

\* C19: in every reachable WalletState a non-null error implies isConnected
\* false and isConnecting false.
C19_ErrorMeansDisconnected ==
    walletState.error # Null => (~walletState.isConnected /\ ~walletState.isConnecting)

\* A request failed in a state that an accountsChanged notification had marked
\* connected while the request was in flight.
C19_Witness ==
    /\ last.op = "connectReject"
    /\ last.before.isConnected
    /\ last.before.isConnecting
    /\ walletState.error # Null

\* C20: the number of eth_requestAccounts requests issued equals the number of
\* connectWallet() calls made with the provider installed; each such call
\* issues exactly one request and nothing else issues any.
C20_NoRetry ==
    /\ requestsIssued = calls
    /\ (last.op = "connect" /\ installed) => requestsIssued = last.requestsBefore + 1
    /\ last.op \notin {"connect", "none"} => requestsIssued = last.requestsBefore
    /\ ~installed => requestsIssued = 0

\* Two attempts were made and the last one failed; two requests were issued.
C20_Witness ==
    /\ last.op = "connectReject"
    /\ calls = 2
    /\ requestsIssued = 2
    /\ inflight = 0

\* C11: with connectWallet() triggered only through the modal's connect
\* control, at most one eth_requestAccounts request is outstanding at any time.
C11_AtMostOneOutstanding ==
    inflight <= 1

\* C13: whenever a connection attempt started from the modal ends in the
\* Connected state, a close of the modal is scheduled, whatever error was
\* before the attempt started.
C13_SuccessSchedulesClose ==
    (lastAttempt.status = "settled" /\ lastAttempt.connected) => lastAttempt.scheduled

\* C18: a connection attempt started from the modal that fails does not
\* schedule the modal's auto-close.
C18_FailureKeepsModalOpen ==
    (lastAttempt.status = "settled" /\ ~lastAttempt.connected) => ~lastAttempt.scheduled

\* The horizontal ellipsis U+2026, one character, different from a full stop
Ellipsis == "U+2026"

\* The first k characters of str, or all of str if it is shorter
FirstChars(str, k) == [i \in 1..Min(k, Len(str)) |-> str[i]]

\* The last k characters of str, or all of str if it is shorter
LastChars(str, k) ==
    [i \in 1..Min(k, Len(str)) |-> str[Len(str) - Min(k, Len(str)) + i]]

\* C16 (as claimed): for a non-empty address formatAddress returns its first 6
\* characters, the ellipsis character and its last 4 characters, so that the
\* example gives "0x1234" + U+2026 + "cdef"; for the empty string it returns
\* the empty string.
C16_FormatWithEllipsis ==
    fmtDone =>
        /\ fmtAddress = <<>> => fmtResult = <<>>
        /\ fmtAddress # <<>> =>
               fmtResult = FirstChars(fmtAddress, 6) \o <<Ellipsis>> \o LastChars(fmtAddress, 4)
        /\ fmtAddress = ExampleAddress =>
               fmtResult = <<"0", "x", "1", "2", "3", "4", Ellipsis, "c", "d", "e", "f">>

\* C16 (amended): for a non-empty address formatAddress returns its first 6
\* characters, three full stops and its last 4 characters, so that the example
\* gives "0x1234...cdef"; for the empty string it returns the empty string.
C16_FormatWithDots ==
    fmtDone =>
        /\ fmtAddress = <<>> => fmtResult = <<>>
        /\ fmtAddress # <<>> =>
               fmtResult = FirstChars(fmtAddress, 6) \o <<".", ".", ".">> \o LastChars(fmtAddress, 4)
        /\ fmtAddress = ExampleAddress =>
               fmtResult = <<"0", "x", "1", "2", "3", "4", ".", ".", ".", "c", "d", "e", "f">>

\* formatAddress returned for the documented example.
C16_Witness ==
    /\ fmtDone
    /\ fmtAddress = ExampleAddress
    /\ Len(fmtResult) = 13

\* C21: if the provider eventually resolves or rejects every request, every
\* connectWallet() call eventually settles: from any state of the mounted hook
\* with isConnecting = true a state with isConnecting = false is eventually
\* reached (or the hook is torn down and its state disposed of), and
\* isConnecting does not stay true once no request is outstanding.
C21_ConnectingEventuallyEnds ==
    /\ (phase = "mounted" /\ walletState.isConnecting)
           ~> (~walletState.isConnecting \/ phase = "unmounted")
    /\ (phase = "mounted" /\ inflight = 0) ~> ~walletState.isConnecting

\* The provider answered one of two overlapping connectWallet() calls with an
\* empty list: isConnecting ended while the other request is still outstanding.
C21_Witness ==
    /\ phase = "mounted"
    /\ last.op = "connectResolve"
    /\ last.accounts = <<>>
    /\ last.before.isConnecting
    /\ ~walletState.isConnecting
    /\ inflight = 1

\* The identifiers an array holds
Members(array) == {array[i] : i \in 1..Len(array)}

\* C22: favorites, starting from ['1', '4'], never holds an identifier twice;
\* a handleToggleFavorite(id) call adds id when it was absent and removes it
\* when it was present, and leaves the membership of every other identifier
\* as it was; two calls in a row with the same id restore the membership the
\* first one started from.
C22_FavoritesIsSet ==
    /\ \A i, j \in 1..Len(favorites) : favorites[i] = favorites[j] => i = j
    /\ lastToggle.id # Null =>
          /\ includes(favorites, lastToggle.id) = ~includes(lastToggle.before, lastToggle.id)
          /\ Members(favorites) \ {lastToggle.id} = Members(lastToggle.before) \ {lastToggle.id}
    /\ (lastToggle.id # Null /\ lastToggle.prevId = lastToggle.id) =>
          Members(favorites) = Members(lastToggle.prevBefore)

\* The same identifier was toggled twice in a row, first removed and then
\* added back, so that it moved to the end of the collection.
C22_Witness ==
    /\ lastToggle.id = "1"
    /\ lastToggle.prevId = "1"
    /\ lastToggle.prevBefore = <<"1", "4">>
    /\ lastToggle.before = <<"4">>
    /\ favorites = <<"4", "1">>

\* C23: what the wallet modal renders is determined by isOpen, walletState and
\* isMetaMaskInstalled: nothing when isOpen is false; the disconnect button
\* exactly when open and isConnected; the connect button exactly when open,
\* not connected and the provider installed; the install link exactly when
\* open, not connected and the provider not installed; the error banner
\* whenever the modal is open and walletState.error is non-null.
C23_ModalRendering ==
    /\ ~isWalletModalOpen => Modal = {}
    /\ "disconnectButton" \in Modal <=> (isWalletModalOpen /\ rendered.isConnected)
    /\ "connectButton" \in Modal
          <=> (isWalletModalOpen /\ ~rendered.isConnected /\ isMetaMaskInstalled)
    /\ "installLink" \in Modal
          <=> (isWalletModalOpen /\ ~rendered.isConnected /\ ~isMetaMaskInstalled)
    /\ (isWalletModalOpen /\ rendered.error # Null) => "errorBanner" \in Modal

\* The open modal shows the error of a failed attempt next to the connect
\* button.
C23_Witness ==
    /\ isWalletModalOpen
    /\ rendered.error # Null
    /\ Modal = {"errorBanner", "connectButton"}


============================================================================
